---------------------------- MODULE Spec2Model ----------------------------
(***************************************************************************)
(* Model of kirin's COTS connector (kirin/cots/model_maker.py):            *)
(* get_value, is_station, _retrieve_interesting_pdp,                       *)
(* _retrieve_projected_time, as_duration and KirinModelBuilder.build with  *)
(* its helpers _get_vjs and _make_trip_update.                             *)
(*                                                                         *)
(* JSON values.  A key that is absent and a key whose value is null are    *)
(* the same thing for dict.get, so both are written "None" (strings),      *)
(* <<>> (optional integers are sequences of length <= 1) or json = "null"  *)
(* (sub-objects).  A sub-object keeps the difference between the empty     *)
(* dict {} and a non-empty dict, which Python's truth test sees.           *)
(* A projected-time list that is absent, null or [] is written <<>>:       *)
(* every test the code makes on it is a truth test.                        *)
(*                                                                         *)
(* Left out: the contributor and the disruption messages fetched through   *)
(* MessageHandler (idMotifInterne*Reference), which no branch reads, and   *)
(* the parsing of dateHeure, of which only the presence is kept.           *)
(***************************************************************************)
EXTENDS Integers, Sequences, FiniteSets, TLC

VARIABLES
    raw,           \* the decoded feed message (ujson.loads(rt_update.raw_data))
    navitia,       \* what the trip matcher answers for this message, if asked
    pc,            \* position in build: "build", "get_vjs", "make", "done", "failed"
    vjs,           \* build's local vjs
    trip_updates,  \* the list build's comprehension has assembled so far
    result,        \* the value build returned (<<>> until it returns)
    error,         \* the exception build raised (NoError until it raises)
    log,           \* diagnostics recorded by record_internal_failure, in order
    fn_in,         \* pure-function runs: the argument
    fn_out,        \* pure-function runs: the latest value returned
    fn_prev,       \* pure-function runs: the value returned by the call before
    fn_pc          \* pure-function runs: number of calls made

vars == <<raw, navitia, pc, vjs, trip_updates, result, error, log,
          fn_in, fn_out, fn_prev, fn_pc>>

builder_vars == <<raw, navitia, pc, vjs, trip_updates, result, error, log>>

fn_vars == <<fn_in, fn_out, fn_prev, fn_pc>>

-----------------------------------------------------------------------------
(* Bounds of the explored inputs *)

\* longest listePointDeParcours given to build
MaxPdp == 2

\* longest list drawn for the Stop Relevance Filter alone
MaxFilterLen == 4

\* longest list of projected times drawn for the resolver alone
MaxProj == 3

\* most trip instances the trip matcher returns
MaxVj == 2

\* longest listePointDeParcours given to _get_vjs run on its own
MaxVjsPdp == 3

-----------------------------------------------------------------------------
(* JSON shapes *)

\* a time-block (horaireVoyageurDepart / horaireVoyageurArrivee) that is absent
NoBlock ==
    [json |-> "null", dateHeure |-> FALSE, statutCirculationOPE |-> "None",
     sourceHoraireProjeteReference |-> "None", listeHoraireProjete |-> <<>>]

\* the empty dict {}
EmptyBlock == [NoBlock EXCEPT !.json = "{}"]

\* a time-block with a dateHeure and nothing else
PlainBlock == [NoBlock EXCEPT !.json = "{..}", !.dateHeure = TRUE]

\* a station served by a plain departure and a plain arrival, no projected time
BasePdp ==
    [typeArret |-> "None", cr |-> "cr1",
     horaireVoyageurDepart |-> PlainBlock,
     horaireVoyageurArrivee |-> PlainBlock,
     sourceHoraireProjeteDepartReference |-> "None",
     listeHoraireProjeteDepart |-> <<>>,
     sourceHoraireProjeteArriveeReference |-> "None",
     listeHoraireProjeteArrivee |-> <<>>]

\* Python's truth test on a sub-object: None and {} are false
Truthy(obj) == obj.json = "{..}"

\* sequences over S of length 0..n
SeqUpTo(S, n) == UNION {[1..k -> S] : k \in 0..n}

-----------------------------------------------------------------------------
(* Pure functions of the module *)

\* is_station: typeArret is None or one of '', CD, CH, FD, FH
is_station(pdp) ==
    \/ pdp.typeArret = "None"
    \/ pdp.typeArret \in {"", "CD", "CH", "FD", "FH"}

\* has_following_arrival with the is_station test of the following pdp forgotten
has_following_arrival_any_type(list_pdp, idx) ==
    \E j \in idx..Len(list_pdp) : Truthy(list_pdp[j].horaireVoyageurArrivee)

\* the any(...) of _retrieve_interesting_pdp over list_pdp[idx:] (idx is 1-based here)
has_following_arrival(list_pdp, idx) ==
    \E j \in idx..Len(list_pdp) :
        Truthy(list_pdp[j].horaireVoyageurArrivee) /\ is_station(list_pdp[j])

\* FilterStep without the test of lines 101-106: a point without arrival time
\* is kept whatever follows
FilterStepNoTrim(list_pdp, idx, st) ==
    LET pdp == list_pdp[idx] IN
    IF st.stopped THEN st
    ELSE IF ~st.picked_one /\ ~Truthy(pdp.horaireVoyageurDepart) THEN st
    ELSE IF ~is_station(pdp) THEN st
    ELSE IF ~Truthy(pdp.horaireVoyageurDepart) /\ ~Truthy(pdp.horaireVoyageurArrivee) THEN st
    ELSE [st EXCEPT !.res = Append(@, pdp), !.picked_one = TRUE]

\* FilterStep with picked_one set by the first point that has a departure
\* time, kept or not
FilterStepOpenAtAnyDeparture(list_pdp, idx, st) ==
    LET pdp == list_pdp[idx] IN
    IF st.stopped THEN st
    ELSE IF ~st.picked_one /\ ~Truthy(pdp.horaireVoyageurDepart) THEN st
    ELSE IF ~is_station(pdp) THEN [st EXCEPT !.picked_one = TRUE]
    ELSE IF ~Truthy(pdp.horaireVoyageurDepart) /\ ~Truthy(pdp.horaireVoyageurArrivee)
         THEN [st EXCEPT !.picked_one = TRUE]
    ELSE IF ~Truthy(pdp.horaireVoyageurArrivee) /\ ~has_following_arrival(list_pdp, idx)
         THEN [st EXCEPT !.stopped = TRUE]
    ELSE [st EXCEPT !.res = Append(@, pdp), !.picked_one = TRUE]

\* FilterStep without the wait for a first departure time (picked_one always true)
FilterStepNoWait(list_pdp, idx, st) ==
    LET pdp == list_pdp[idx] IN
    IF st.stopped THEN st
    ELSE IF ~is_station(pdp) THEN st
    ELSE IF ~Truthy(pdp.horaireVoyageurDepart) /\ ~Truthy(pdp.horaireVoyageurArrivee) THEN st
    ELSE IF ~Truthy(pdp.horaireVoyageurArrivee) /\ ~has_following_arrival(list_pdp, idx)
         THEN [st EXCEPT !.stopped = TRUE]
    ELSE [st EXCEPT !.res = Append(@, pdp), !.picked_one = TRUE]

\* one turn of the for loop: st = [res, picked_one, stopped] before list_pdp[idx]
FilterStep(list_pdp, idx, st) ==
    LET pdp == list_pdp[idx] IN
    IF st.stopped THEN st
    ELSE IF ~st.picked_one /\ ~Truthy(pdp.horaireVoyageurDepart) THEN st
    ELSE IF ~is_station(pdp) THEN st
    ELSE IF ~Truthy(pdp.horaireVoyageurDepart) /\ ~Truthy(pdp.horaireVoyageurArrivee) THEN st
    ELSE IF ~Truthy(pdp.horaireVoyageurArrivee) /\ ~has_following_arrival(list_pdp, idx)
         THEN [st EXCEPT !.stopped = TRUE]
    ELSE [st EXCEPT !.res = Append(@, pdp), !.picked_one = TRUE]

RECURSIVE FilterLoop(_, _, _)
FilterLoop(list_pdp, idx, st) ==
    IF idx > Len(list_pdp) THEN st
    ELSE FilterLoop(list_pdp, idx + 1, FilterStep(list_pdp, idx, st))

\* _retrieve_interesting_pdp
_retrieve_interesting_pdp(list_pdp) ==
    FilterLoop(list_pdp, 1, [res |-> <<>>, picked_one |-> FALSE, stopped |-> FALSE]).res

\* as_duration: None stays None, a number of seconds becomes a timedelta,
\* which is written as its number of seconds
as_duration(seconds) == seconds

\* the outcome of a call: a value, or the exception raised
NoError == [kind |-> "None", what |-> "", a |-> "", b |-> ""]

InvalidArguments(what, a, b) ==
    [kind |-> "InvalidArguments", what |-> what, a |-> a, b |-> b]

ObjectNotFound(a) == [kind |-> "ObjectNotFound", what |-> "headsign", a |-> a, b |-> ""]

\* a projected time that is not there (the resolver's None)
NoProjected == <<>>

\* indices of list_proj_time whose source is the reference
MatchingSources(source_ref, list_proj_time) ==
    {i \in 1..Len(list_proj_time) :
        list_proj_time[i].source # "None" /\ list_proj_time[i].source = source_ref}

\* _retrieve_projected_time with the raise for an unmatched reference placed
\* inside "if list_proj_time:", so that an empty list falls through to None
_retrieve_projected_time_raise_nested(source_ref, list_proj_time) ==
    IF source_ref # "None" /\ list_proj_time # <<>> THEN
        IF MatchingSources(source_ref, list_proj_time) # {} THEN
            LET first == CHOOSE i \in MatchingSources(source_ref, list_proj_time) :
                            \A j \in MatchingSources(source_ref, list_proj_time) : i <= j
            IN [error |-> NoError, value |-> <<list_proj_time[first]>>]
        ELSE [error |-> InvalidArguments("source", source_ref, ""), value |-> NoProjected]
    ELSE IF source_ref = "None" /\ list_proj_time # <<>> THEN
        IF Len(list_proj_time) = 1
        THEN [error |-> NoError, value |-> <<list_proj_time[1]>>]
        ELSE [error |-> InvalidArguments("no source", "", ""), value |-> NoProjected]
    ELSE [error |-> NoError, value |-> NoProjected]

\* _retrieve_projected_time: [error, value], value a sequence of length <= 1
_retrieve_projected_time(source_ref, list_proj_time) ==
    IF source_ref # "None" THEN
        IF MatchingSources(source_ref, list_proj_time) # {} THEN
            LET first == CHOOSE i \in MatchingSources(source_ref, list_proj_time) :
                            \A j \in MatchingSources(source_ref, list_proj_time) : i <= j
            IN [error |-> NoError, value |-> <<list_proj_time[first]>>]
        ELSE [error |-> InvalidArguments("source", source_ref, ""), value |-> NoProjected]
    ELSE IF list_proj_time # <<>> THEN
        IF Len(list_proj_time) = 1
        THEN [error |-> NoError, value |-> <<list_proj_time[1]>>]
        ELSE [error |-> InvalidArguments("no source", "", ""), value |-> NoProjected]
    ELSE [error |-> NoError, value |-> NoProjected]

-----------------------------------------------------------------------------
(* Collaborators whose code is outside this file *)

\* model.TripUpdate(vj=vj): no status assigned, no stop_time_updates
NewTripUpdate(vj) == [vj |-> vj.id, status |-> "none", stop_time_updates |-> <<>>]

\* model.StopTimeUpdate(nav_stop): both directions unset, no delay
NewStopTimeUpdate(nav_stop) ==
    [stop |-> nav_stop,
     arrival_status |-> "none", arrival_delay |-> <<>>,
     departure_status |-> "none", departure_delay |-> <<>>]

\* get_navitia_stop_time_sncf(cr, ci, ch, nav_vj): (nav_st, log_dict).
\* vj.stops holds the codes for which the trip instance has exactly one stop;
\* for any other code nav_st is None and a log_dict is returned.
get_navitia_stop_time_sncf(cr, nav_vj) ==
    IF cr \in nav_vj.stops
    THEN [found |-> TRUE, stop_point |-> cr, log |-> <<>>]
    ELSE [found |-> FALSE, stop_point |-> "None", log |-> <<"stop not matched">>]

\* self._get_navitia_vjs(train_numbers, vj_start, vj_end): the trip instances
\* the matcher answers, or ObjectNotFound naming the headsign(s) when there is none
_get_navitia_vjs(train_numbers, answer) ==
    IF answer = <<>>
    THEN [error |-> ObjectNotFound(train_numbers), value |-> <<>>]
    ELSE [error |-> NoError, value |-> answer]

-----------------------------------------------------------------------------
(* KirinModelBuilder *)

\* _get_navitia_stop_time: cr, ci and ch are required keys of the pdp
\* (the triple is written as the one code cr)
_get_navitia_stop_time(pdp, nav_vj) ==
    IF pdp.cr = "None"
    THEN [error |-> InvalidArguments("key", "cr", ""),
          found |-> FALSE, stop_point |-> "None", log |-> <<>>]
    ELSE [error |-> NoError] @@ get_navitia_stop_time_sncf(pdp.cr, nav_vj)

\* _get_vjs answering an empty list when the matcher finds no trip instance
_get_vjs_not_found_swallowed(json_train, answer) ==
    IF json_train.numeroCourse = "None"
    THEN [error |-> InvalidArguments("key", "numeroCourse", ""), value |-> <<>>]
    ELSE IF ~json_train.hasListePointDeParcours
    THEN [error |-> InvalidArguments("key", "listePointDeParcours", ""), value |-> <<>>]
    ELSE LET pdps == _retrieve_interesting_pdp(json_train.listePointDeParcours) IN
         IF pdps = <<>>
         THEN [error |-> InvalidArguments("no valid stop_time", "listePointDeParcours", ""),
               value |-> <<>>]
         ELSE IF pdps[1].horaireVoyageurDepart.json = "null"
         THEN [error |-> InvalidArguments("key", "horaireVoyageurDepart", ""), value |-> <<>>]
         ELSE IF ~pdps[1].horaireVoyageurDepart.dateHeure
         THEN [error |-> InvalidArguments("key", "dateHeure", "Depart"), value |-> <<>>]
         ELSE IF pdps[Len(pdps)].horaireVoyageurArrivee.json = "null"
         THEN [error |-> InvalidArguments("key", "horaireVoyageurArrivee", ""), value |-> <<>>]
         ELSE IF ~pdps[Len(pdps)].horaireVoyageurArrivee.dateHeure
         THEN [error |-> InvalidArguments("key", "dateHeure", "Arrivee"), value |-> <<>>]
         ELSE [error |-> NoError, value |-> answer]

\* _get_vjs reading listePointDeParcours before numeroCourse
_get_vjs_list_first(json_train, answer) ==
    IF ~json_train.hasListePointDeParcours
    THEN [error |-> InvalidArguments("key", "listePointDeParcours", ""), value |-> <<>>]
    ELSE IF json_train.numeroCourse = "None"
    THEN [error |-> InvalidArguments("key", "numeroCourse", ""), value |-> <<>>]
    ELSE LET pdps == _retrieve_interesting_pdp(json_train.listePointDeParcours) IN
         IF pdps = <<>>
         THEN [error |-> InvalidArguments("no valid stop_time", "listePointDeParcours", ""),
               value |-> <<>>]
         ELSE IF pdps[1].horaireVoyageurDepart.json = "null"
         THEN [error |-> InvalidArguments("key", "horaireVoyageurDepart", ""), value |-> <<>>]
         ELSE IF ~pdps[1].horaireVoyageurDepart.dateHeure
         THEN [error |-> InvalidArguments("key", "dateHeure", "Depart"), value |-> <<>>]
         ELSE IF pdps[Len(pdps)].horaireVoyageurArrivee.json = "null"
         THEN [error |-> InvalidArguments("key", "horaireVoyageurArrivee", ""), value |-> <<>>]
         ELSE IF ~pdps[Len(pdps)].horaireVoyageurArrivee.dateHeure
         THEN [error |-> InvalidArguments("key", "dateHeure", "Arrivee"), value |-> <<>>]
         ELSE _get_navitia_vjs(json_train.numeroCourse, answer)

\* _get_vjs(json_train): [error, value]
_get_vjs(json_train, answer) ==
    IF json_train.numeroCourse = "None"
    THEN [error |-> InvalidArguments("key", "numeroCourse", ""), value |-> <<>>]
    ELSE IF ~json_train.hasListePointDeParcours
    THEN [error |-> InvalidArguments("key", "listePointDeParcours", ""), value |-> <<>>]
    ELSE LET pdps == _retrieve_interesting_pdp(json_train.listePointDeParcours) IN
         IF pdps = <<>>
         THEN [error |-> InvalidArguments("no valid stop_time", "listePointDeParcours", ""),
               value |-> <<>>]
         ELSE IF pdps[1].horaireVoyageurDepart.json = "null"
         THEN [error |-> InvalidArguments("key", "horaireVoyageurDepart", ""), value |-> <<>>]
         ELSE IF ~pdps[1].horaireVoyageurDepart.dateHeure
         THEN [error |-> InvalidArguments("key", "dateHeure", "Depart"), value |-> <<>>]
         ELSE IF pdps[Len(pdps)].horaireVoyageurArrivee.json = "null"
         THEN [error |-> InvalidArguments("key", "horaireVoyageurArrivee", ""), value |-> <<>>]
         ELSE IF ~pdps[Len(pdps)].horaireVoyageurArrivee.dateHeure
         THEN [error |-> InvalidArguments("key", "dateHeure", "Arrivee"), value |-> <<>>]
         ELSE _get_navitia_vjs(json_train.numeroCourse, answer)

\* the time-block, source reference and projected-time list that the loop over
\* ['Arrivee', 'Depart'] reads for one direction: the block from
\* horaireVoyageur<toggle>, the other two from the pdp's own keys
\* sourceHoraireProjete<toggle>Reference and listeHoraireProjete<toggle>
cots_traveler_time(pdp, toggle) ==
    IF toggle = "Arrivee" THEN pdp.horaireVoyageurArrivee ELSE pdp.horaireVoyageurDepart

cots_ref_planned(pdp, toggle) ==
    IF toggle = "Arrivee"
    THEN pdp.sourceHoraireProjeteArriveeReference
    ELSE pdp.sourceHoraireProjeteDepartReference

\* the projected times looked for inside the time-block
cots_planned_stop_times_in_block(pdp, toggle) ==
    cots_traveler_time(pdp, toggle).listeHoraireProjete

cots_planned_stop_times(pdp, toggle) ==
    IF toggle = "Arrivee"
    THEN pdp.listeHoraireProjeteArrivee
    ELSE pdp.listeHoraireProjeteDepart

\* what one direction leaves untouched
SkipDirection == [error |-> NoError, status |-> "none", delay |-> <<>>, log |-> <<>>]

\* UpdateDirection without "if cots_delay is None: continue"
UpdateDirectionNullDelay(pdp, toggle) ==
    LET r == _retrieve_projected_time(cots_ref_planned(pdp, toggle),
                                      cots_planned_stop_times(pdp, toggle))
    IN IF r.error # NoError THEN [SkipDirection EXCEPT !.error = r.error]
       ELSE IF r.value = NoProjected THEN SkipDirection
       ELSE [SkipDirection EXCEPT !.status = "update",
                                  !.delay = as_duration(r.value[1].pronosticIV)]

\* the branch taken when the time-block has no statutCirculationOPE
UpdateDirection(pdp, toggle) ==
    LET r == _retrieve_projected_time(cots_ref_planned(pdp, toggle),
                                      cots_planned_stop_times(pdp, toggle))
    IN IF r.error # NoError THEN [SkipDirection EXCEPT !.error = r.error]
       ELSE IF r.value = NoProjected THEN SkipDirection
       ELSE IF r.value[1].pronosticIV = <<>> THEN SkipDirection
       ELSE [SkipDirection EXCEPT !.status = "update",
                                  !.delay = as_duration(r.value[1].pronosticIV)]

\* CodeDirection with a final else that logs and goes on
CodeDirectionLenient(code, toggle) ==
    IF code = "SUPPRESSION" THEN [SkipDirection EXCEPT !.status = "delete"]
    ELSE IF code = "SUPPRESSION_DETOURNEMENT"
         THEN [SkipDirection EXCEPT !.status = "delete",
                                    !.log = <<"SUPPRESSION_DETOURNEMENT is not handled completely">>]
    ELSE IF code = "CREATION"
         THEN [SkipDirection EXCEPT !.log = <<"CREATION is not handled">>]
    ELSE IF code = "DETOURNEMENT"
         THEN [SkipDirection EXCEPT !.log = <<"DETOURNEMENT is not handled">>]
    ELSE [SkipDirection EXCEPT !.log = <<"unknown code is not handled">>]

\* CodeDirection with the setattr of 'delete' missing under SUPPRESSION_DETOURNEMENT
CodeDirectionDetourKept(code, toggle) ==
    IF code = "SUPPRESSION" THEN [SkipDirection EXCEPT !.status = "delete"]
    ELSE IF code = "SUPPRESSION_DETOURNEMENT"
         THEN [SkipDirection EXCEPT
                  !.log = <<"SUPPRESSION_DETOURNEMENT is not handled completely">>]
    ELSE IF code = "CREATION"
         THEN [SkipDirection EXCEPT !.log = <<"CREATION is not handled">>]
    ELSE IF code = "DETOURNEMENT"
         THEN [SkipDirection EXCEPT !.log = <<"DETOURNEMENT is not handled">>]
    ELSE [SkipDirection EXCEPT !.error = InvalidArguments("statutCirculationOPE", code, toggle)]

\* the elif chain on cots_stop_time_status, entered when it is not None
CodeDirection(code, toggle) ==
    IF code = "SUPPRESSION" THEN [SkipDirection EXCEPT !.status = "delete"]
    ELSE IF code = "SUPPRESSION_DETOURNEMENT"
         THEN [SkipDirection EXCEPT !.status = "delete",
                                    !.log = <<"SUPPRESSION_DETOURNEMENT is not handled completely">>]
    ELSE IF code = "CREATION"
         THEN [SkipDirection EXCEPT !.log = <<"CREATION is not handled">>]
    ELSE IF code = "DETOURNEMENT"
         THEN [SkipDirection EXCEPT !.log = <<"DETOURNEMENT is not handled">>]
    ELSE [SkipDirection EXCEPT !.error = InvalidArguments("statutCirculationOPE", code, toggle)]

\* the body of the loop over ['Arrivee', 'Depart'] for one direction:
\* [error, status, delay, log], status "none" when nothing is set
ClassifyDirection(pdp, toggle) ==
    LET t == cots_traveler_time(pdp, toggle)
    IN IF t.json = "null" THEN SkipDirection
       ELSE IF t.statutCirculationOPE = "None" THEN UpdateDirection(pdp, toggle)
       ELSE CodeDirection(t.statutCirculationOPE, toggle)

\* StopStep without "if nav_st is None: continue"
StopStepKeepUnresolved(pdp, vj, acc) ==
    LET nav == _get_navitia_stop_time(pdp, vj)
        arr == ClassifyDirection(pdp, "Arrivee")
        dep == ClassifyDirection(pdp, "Depart")
        st_update == NewStopTimeUpdate(nav.stop_point)
    IN IF acc.error # NoError THEN acc
       ELSE IF nav.error # NoError THEN [acc EXCEPT !.error = nav.error]
       ELSE IF arr.error # NoError
            THEN [acc EXCEPT !.error = arr.error, !.log = @ \o nav.log \o arr.log]
       ELSE IF dep.error # NoError
            THEN [acc EXCEPT !.error = dep.error, !.log = @ \o nav.log \o arr.log \o dep.log]
       ELSE [acc EXCEPT
                !.log = @ \o nav.log \o arr.log \o dep.log,
                !.stop_time_updates = Append(@,
                    [st_update EXCEPT !.arrival_status = arr.status,
                                      !.arrival_delay = arr.delay,
                                      !.departure_status = dep.status,
                                      !.departure_delay = dep.delay])]

\* one turn of "for pdp in pdps": acc = [error, stop_time_updates, log]
StopStep(pdp, vj, acc) ==
    LET nav == _get_navitia_stop_time(pdp, vj)
        arr == ClassifyDirection(pdp, "Arrivee")
        dep == ClassifyDirection(pdp, "Depart")
        st_update == NewStopTimeUpdate(nav.stop_point)
    IN IF acc.error # NoError THEN acc
       ELSE IF nav.error # NoError THEN [acc EXCEPT !.error = nav.error]
       ELSE IF ~nav.found THEN [acc EXCEPT !.log = @ \o nav.log]
       ELSE IF arr.error # NoError
            THEN [acc EXCEPT !.error = arr.error, !.log = @ \o arr.log]
       ELSE IF dep.error # NoError
            THEN [acc EXCEPT !.error = dep.error, !.log = @ \o arr.log \o dep.log]
       ELSE [acc EXCEPT
                !.log = @ \o arr.log \o dep.log,
                !.stop_time_updates = Append(@,
                    [st_update EXCEPT !.arrival_status = arr.status,
                                      !.arrival_delay = arr.delay,
                                      !.departure_status = dep.status,
                                      !.departure_delay = dep.delay])]

RECURSIVE StopLoop(_, _, _, _)
StopLoop(pdps, idx, vj, acc) ==
    IF idx > Len(pdps) THEN acc
    ELSE StopLoop(pdps, idx + 1, vj, StopStep(pdps[idx], vj, acc))

\* _make_trip_update from "trip_update.status = 'update'" to its last return
UpdateTrip(vj, json_train) ==
    IF ~json_train.hasListePointDeParcours
    THEN [error |-> InvalidArguments("key", "listePointDeParcours", ""),
          trip_update |-> NewTripUpdate(vj), log |-> <<>>]
    ELSE LET pdps == _retrieve_interesting_pdp(json_train.listePointDeParcours)
             acc == StopLoop(pdps, 1, vj,
                             [error |-> NoError, stop_time_updates |-> <<>>, log |-> <<>>])
         IN [error |-> acc.error,
             trip_update |-> [NewTripUpdate(vj) EXCEPT !.status = "update",
                                 !.stop_time_updates = acc.stop_time_updates],
             log |-> acc.log]

\* _make_trip_update with the test for 'SUPPRIMEE' never true, so that a
\* removed trip goes on as an update
_make_trip_update_no_removal(vj, json_train) ==
    LET trip_status == json_train.statutOperationnel
    IN IF trip_status = "None"
       THEN [error |-> InvalidArguments("key", "statutOperationnel", ""),
             trip_update |-> NewTripUpdate(vj), log |-> <<>>]
       ELSE IF trip_status = "AJOUTEE"
       THEN [error |-> NoError, trip_update |-> NewTripUpdate(vj),
             log |-> <<"AJOUTEE is not handled">>]
       ELSE UpdateTrip(vj, json_train)

\* _make_trip_update with the test for 'AJOUTEE' never true, so that an added
\* trip goes on as an update
_make_trip_update_no_addition(vj, json_train) ==
    LET trip_status == json_train.statutOperationnel
    IN IF trip_status = "None"
       THEN [error |-> InvalidArguments("key", "statutOperationnel", ""),
             trip_update |-> NewTripUpdate(vj), log |-> <<>>]
       ELSE IF trip_status = "SUPPRIMEE"
       THEN [error |-> NoError,
             trip_update |-> [NewTripUpdate(vj) EXCEPT !.status = "delete",
                                                      !.stop_time_updates = <<>>],
             log |-> <<>>]
       ELSE UpdateTrip(vj, json_train)

\* _make_trip_update(vj, json_train): [error, trip_update, log]
_make_trip_update(vj, json_train) ==
    LET trip_update == NewTripUpdate(vj)
        trip_status == json_train.statutOperationnel
    IN IF trip_status = "None"
       THEN [error |-> InvalidArguments("key", "statutOperationnel", ""),
             trip_update |-> trip_update, log |-> <<>>]
       ELSE IF trip_status = "SUPPRIMEE"
       THEN [error |-> NoError,
             trip_update |-> [trip_update EXCEPT !.status = "delete",
                                                 !.stop_time_updates = <<>>],
             log |-> <<>>]
       ELSE IF trip_status = "AJOUTEE"
       THEN [error |-> NoError, trip_update |-> trip_update,
             log |-> <<"AJOUTEE is not handled">>]
       ELSE UpdateTrip(vj, json_train)

-----------------------------------------------------------------------------
(* The feed messages explored *)

\* a projected-time candidate of listeHoraireProjete<toggle>
Candidate(source, pronosticIV) == [source |-> source, pronosticIV |-> pronosticIV]

\* statutCirculationOPE values: the four the code knows and one it does not
KnownCodes == {"SUPPRESSION", "SUPPRESSION_DETOURNEMENT", "CREATION", "DETOURNEMENT"}

UnknownCode == "RETARD_OBSERVE"

WithDepart(pdp, block) == [pdp EXCEPT !.horaireVoyageurDepart = block]

WithArrivee(pdp, block) == [pdp EXCEPT !.horaireVoyageurArrivee = block]

WithCode(block, code) == [block EXCEPT !.statutCirculationOPE = code]

\* every combination of station-ness and presence of the two time-blocks
ShapePdps ==
    {[BasePdp EXCEPT !.typeArret = t, !.horaireVoyageurDepart = d,
                     !.horaireVoyageurArrivee = a] :
        t \in {"None", "PN"}, d \in {NoBlock, PlainBlock}, a \in {NoBlock, PlainBlock}}

\* required keys missing, an empty time-block, a stop only some trips know
KeyPdps ==
    {[BasePdp EXCEPT !.cr = "cr2"],
     [BasePdp EXCEPT !.cr = "None"],
     WithDepart(BasePdp, [PlainBlock EXCEPT !.dateHeure = FALSE]),
     WithArrivee(BasePdp, [PlainBlock EXCEPT !.dateHeure = FALSE]),
     WithArrivee(BasePdp, EmptyBlock),
     WithDepart(BasePdp, EmptyBlock)}

\* a circulation-status code on one direction
CodePdps ==
    {WithDepart(BasePdp, WithCode(PlainBlock, c)) : c \in KnownCodes \cup {UnknownCode}}
    \cup {WithArrivee(BasePdp, WithCode(PlainBlock, c)) : c \in {"SUPPRESSION", UnknownCode}}
    \cup {WithDepart([BasePdp EXCEPT !.cr = "cr2"], WithCode(PlainBlock, UnknownCode))}

\* projected times: on the pdp, where the code reads them, for each outcome of
\* the resolver, and inside the time-block, where the code does not look
ProjPdps ==
    {[BasePdp EXCEPT !.sourceHoraireProjeteDepartReference = x[1],
                     !.listeHoraireProjeteDepart = x[2]] :
        x \in {<<"None", <<Candidate("None", <<900>>)>> >>,
               <<"None", <<Candidate("ESCALE", <<>>)>> >>,
               <<"None", <<Candidate("ESCALE", <<0>>), Candidate("None", <<900>>)>> >>,
               <<"ESCALE", <<Candidate("None", <<60>>), Candidate("ESCALE", <<900>>)>> >>,
               <<"ESCALE", <<Candidate("None", <<900>>)>> >>,
               <<"ESCALE", <<>> >>}}
    \cup {[BasePdp EXCEPT !.listeHoraireProjeteArrivee = <<Candidate("None", <<-60>>)>>]}
    \cup {WithDepart(BasePdp,
            [PlainBlock EXCEPT !.listeHoraireProjete = <<Candidate("None", <<900>>)>>])}

\* the points every family of messages shares: a station and a non-station
\* with both time-blocks, a station with a departure only, one with an
\* arrival only
CorePdps ==
    {BasePdp, [BasePdp EXCEPT !.typeArret = "PN"],
     WithArrivee(BasePdp, NoBlock), WithDepart(BasePdp, NoBlock)}

\* The points of one message are drawn from one family: the shapes the filter
\* tells apart, the missing keys, the circulation-status codes (with a point
\* whose projected times are ambiguous), the projected times (with a deleted
\* arrival and a stop only some trips know).
PdpFamilies ==
    {ShapePdps,
     CorePdps \cup KeyPdps,
     CorePdps \cup CodePdps
        \cup {[BasePdp EXCEPT !.listeHoraireProjeteDepart =
                 <<Candidate("ESCALE", <<0>>), Candidate("None", <<900>>)>>]},
     CorePdps \cup ProjPdps
        \cup {WithArrivee(BasePdp, WithCode(PlainBlock, "SUPPRESSION")),
              [BasePdp EXCEPT !.cr = "cr2"]}}

\* the lists of points de parcours given to build
BuilderLists(n) == UNION {SeqUpTo(F, n) : F \in PdpFamilies}

\* nouvelleVersion of a message
JsonTrain(numeroCourse, statutOperationnel, hasListe, liste) ==
    [parses |-> TRUE,
     nouvelleVersion |-> "{..}",
     numeroCourse |-> numeroCourse,
     statutOperationnel |-> statutOperationnel,
     hasListePointDeParcours |-> hasListe,
     listePointDeParcours |-> liste]

\* statutOperationnel values: the two the code names and one it does not
TripStatuses == {"SUPPRIMEE", "AJOUTEE", "PERTURBEE"}

\* messages with every required trip-level key
WellFormedMessages ==
    {JsonTrain("006113/4", s, TRUE, l) :
        s \in TripStatuses, l \in BuilderLists(MaxPdp)}

\* raw_data that ujson.loads rejects
UnparsableMessage == [JsonTrain("None", "None", FALSE, <<>>) EXCEPT !.parses = FALSE]

\* messages that miss nouvelleVersion, numeroCourse, listePointDeParcours
\* or statutOperationnel
MalformedMessages ==
    {UnparsableMessage} \cup
    {[JsonTrain(n[1], s, n[2], IF n[2] THEN l ELSE <<>>)
        EXCEPT !.nouvelleVersion = v] :
        v \in {"{..}", "null", "absent"}, s \in {"PERTURBEE", "None"},
        n \in {<<"None", TRUE>>, <<"006113/4", FALSE>>, <<"None", FALSE>>,
               <<"006113/4", TRUE>>},
        l \in BuilderLists(1)}

Messages == WellFormedMessages \cup MalformedMessages

\* the stop codes a trip instance can know
VjStopSets == {{"cr1", "cr2"}, {"cr1"}}

\* the answers of the trip matcher: up to MaxVj instances, numbered in its order
NavitiaAnswers ==
    UNION {{[i \in 1..k |-> [id |-> i, stops |-> f[i]]] : f \in [1..k -> VjStopSets]} :
              k \in 0..MaxVj}

-----------------------------------------------------------------------------
(* build, step by step *)

IdleFn == fn_in = <<>> /\ fn_out = <<>> /\ fn_prev = <<>> /\ fn_pc = 0

Init ==
    /\ raw \in Messages
    /\ navitia \in NavitiaAnswers
    /\ pc = "build"
    /\ vjs = <<>>
    /\ trip_updates = <<>>
    /\ result = <<>>
    /\ error = NoError
    /\ log = <<>>
    /\ IdleFn

\* an exception caught around the comprehension, what is assembled handed back
RaiseKeepingAssembled(e) ==
    /\ pc' = "failed"
    /\ error' = e
    /\ result' = trip_updates

\* raise e out of build: nothing is returned
Raise(e) ==
    /\ pc' = "failed"
    /\ error' = e
    /\ result' = <<>>

\* build, up to dict_version = get_value(json, 'nouvelleVersion')
Build ==
    /\ pc = "build"
    /\ IF ~raw.parses
       THEN Raise(InvalidArguments("invalid json", "", ""))
       ELSE IF raw.nouvelleVersion = "absent"
       THEN Raise(InvalidArguments("No object", "nouvelleVersion", ""))
       ELSE IF raw.nouvelleVersion = "null"
       THEN Raise(InvalidArguments("key", "nouvelleVersion", ""))
       ELSE pc' = "get_vjs" /\ UNCHANGED <<error, result>>
    /\ UNCHANGED <<raw, navitia, vjs, trip_updates, log, fn_vars>>

\* vjs = self._get_vjs(dict_version)
GetVjs ==
    /\ pc = "get_vjs"
    /\ LET r == _get_vjs(raw, navitia) IN
       IF r.error # NoError
       THEN Raise(r.error) /\ UNCHANGED vjs
       ELSE pc' = "make" /\ vjs' = r.value /\ UNCHANGED <<error, result>>
    /\ UNCHANGED <<raw, navitia, trip_updates, log, fn_vars>>

\* the comprehension building every element from the first trip instance
MakeTripUpdateFirstVj ==
    /\ pc = "make"
    /\ Len(trip_updates) < Len(vjs)
    /\ LET r == _make_trip_update(vjs[1], raw) IN
       /\ log' = log \o r.log
       /\ IF r.error # NoError
          THEN Raise(r.error) /\ UNCHANGED trip_updates
          ELSE /\ trip_updates' = Append(trip_updates, r.trip_update)
               /\ UNCHANGED <<pc, error, result>>
    /\ UNCHANGED <<raw, navitia, vjs, fn_vars>>

\* one element of [self._make_trip_update(vj, dict_version) for vj in vjs]
MakeTripUpdate ==
    /\ pc = "make"
    /\ Len(trip_updates) < Len(vjs)
    /\ LET r == _make_trip_update(vjs[Len(trip_updates) + 1], raw) IN
       /\ log' = log \o r.log
       /\ IF r.error # NoError
          THEN Raise(r.error) /\ UNCHANGED trip_updates
          ELSE /\ trip_updates' = Append(trip_updates, r.trip_update)
               /\ UNCHANGED <<pc, error, result>>
    /\ UNCHANGED <<raw, navitia, vjs, fn_vars>>

\* return trip_updates
Return ==
    /\ pc = "make"
    /\ Len(trip_updates) = Len(vjs)
    /\ pc' = "done"
    /\ result' = trip_updates
    /\ UNCHANGED <<raw, navitia, vjs, trip_updates, error, log, fn_vars>>

Next == Build \/ GetVjs \/ MakeTripUpdate \/ Return

Spec == Init /\ [][Next]_vars

-----------------------------------------------------------------------------
(* The pure functions, run on their own *)

IdleBuilder ==
    /\ raw = JsonTrain("None", "None", FALSE, <<>>)
    /\ navitia = <<>>
    /\ pc = "idle"
    /\ vjs = <<>>
    /\ trip_updates = <<>>
    /\ result = <<>>
    /\ error = NoError
    /\ log = <<>>

\* points de parcours as the filter sees them: typeArret and the two time-blocks
FilterPdps ==
    {[BasePdp EXCEPT !.typeArret = t, !.horaireVoyageurDepart = d,
                     !.horaireVoyageurArrivee = a] :
        t \in {"None", "CD", "PN"}, d \in {NoBlock, PlainBlock}, a \in {NoBlock, PlainBlock}}
    \cup {WithDepart(BasePdp, EmptyBlock), WithArrivee(BasePdp, EmptyBlock)}

InitFilter ==
    /\ IdleBuilder
    /\ fn_in \in SeqUpTo(FilterPdps, MaxFilterLen)
    /\ fn_out = fn_in
    /\ fn_prev = fn_in
    /\ fn_pc = 0

\* res = _retrieve_interesting_pdp(res), starting from the list drawn
CallFilter ==
    /\ fn_pc < 2
    /\ fn_prev' = fn_out
    /\ fn_out' = _retrieve_interesting_pdp(fn_out)
    /\ fn_pc' = fn_pc + 1
    /\ UNCHANGED <<fn_in, builder_vars>>

NextFilter == CallFilter

SpecFilter == InitFilter /\ [][NextFilter]_vars

\* the candidates drawn for the resolver
ProjCandidates ==
    {Candidate(s, d) : s \in {"None", "ESCALE", "SIPH"}, d \in {<<>>, <<0>>, <<900>>}}

InitProj ==
    /\ IdleBuilder
    /\ fn_in \in [source_ref : {"None", "ESCALE", "SIPH"},
                  list_proj_time : SeqUpTo(ProjCandidates, MaxProj)]
    /\ fn_out = [error |-> NoError, value |-> NoProjected]
    /\ fn_prev = <<>>
    /\ fn_pc = 0

\* _retrieve_projected_time(source_ref, list_proj_time)
CallProjected ==
    /\ fn_pc = 0
    /\ fn_out' = _retrieve_projected_time(fn_in.source_ref, fn_in.list_proj_time)
    /\ fn_pc' = 1
    /\ UNCHANGED <<fn_in, fn_prev, builder_vars>>

NextProj == CallProjected

SpecProj == InitProj /\ [][NextProj]_vars

\* points de parcours as _get_vjs sees them: those the filter tells apart and
\* time-blocks without dateHeure
VjsPdps ==
    FilterPdps
    \cup {WithDepart(BasePdp, [PlainBlock EXCEPT !.dateHeure = FALSE]),
          WithArrivee(BasePdp, [PlainBlock EXCEPT !.dateHeure = FALSE])}

InitVjs ==
    /\ raw \in {JsonTrain("006113/4", "PERTURBEE", TRUE, l) :
                    l \in SeqUpTo(VjsPdps, MaxVjsPdp)}
    /\ navitia \in {<<>>, <<[id |-> 1, stops |-> {"cr1"}]>>}
    /\ pc = "build"
    /\ vjs = <<>>
    /\ trip_updates = <<>>
    /\ result = <<>>
    /\ error = NoError
    /\ log = <<>>
    /\ IdleFn

\* build as far as vjs = self._get_vjs(dict_version)
NextVjs == Build \/ GetVjs

SpecVjs == InitVjs /\ [][NextVjs]_vars

-----------------------------------------------------------------------------
(* Properties *)

\* C2: the Stop Relevance Filter is idempotent: filtering the list that a first
\* call of _retrieve_interesting_pdp returned gives that same list back.
FilterIdempotent == fn_pc = 2 => fn_out = fn_prev

\* a second call made on an output that is non-empty, shorter than the input,
\* and keeps a point without arrival time-block
FilterIdempotentWitness ==
    /\ fn_pc = 2
    /\ fn_prev # <<>>
    /\ Len(fn_prev) < Len(fn_in)
    /\ \E i \in 1..Len(fn_prev) : ~Truthy(fn_prev[i].horaireVoyageurArrivee)

\* C3: _retrieve_projected_time agrees with the reference resolver.  Without a
\* reference: an empty or absent list gives none, a list of one element gives
\* that element, a longer list fails with InvalidArguments.  With a reference:
\* a candidate of the list whose source equals the reference is returned,
\* whatever the length or order of the list, and when no candidate matches
\* (empty list and null sources included) the call fails with InvalidArguments.
ProjectedTimeReference ==
    fn_pc = 1 =>
        LET ref == fn_in.source_ref
            l == fn_in.list_proj_time
            matches == {i \in 1..Len(l) : l[i].source = ref}
        IN IF ref = "None"
           THEN /\ Len(l) = 0 => fn_out.error.kind = "None" /\ fn_out.value = <<>>
                /\ Len(l) = 1 => fn_out.error.kind = "None" /\ fn_out.value = <<l[1]>>
                /\ Len(l) >= 2 => fn_out.error.kind = "InvalidArguments"
           ELSE /\ matches # {} =>
                     /\ fn_out.error.kind = "None"
                     /\ \E i \in matches : fn_out.value = <<l[i]>>
                /\ matches = {} => fn_out.error.kind = "InvalidArguments"

\* a reference resolved in a list of several candidates, the match not first
ProjectedTimeReferenceWitness ==
    /\ fn_pc = 1
    /\ fn_in.source_ref # "None"
    /\ Len(fn_in.list_proj_time) >= 2
    /\ fn_in.list_proj_time[1].source # fn_in.source_ref
    /\ fn_out.error.kind = "None"
    /\ fn_out.value # <<>>
    /\ fn_out.value[1].source = fn_in.source_ref

\* the message has nouvelleVersion, numeroCourse and listePointDeParcours
HasTripKeys ==
    /\ raw.parses
    /\ raw.nouvelleVersion = "{..}"
    /\ raw.numeroCourse # "None"
    /\ raw.hasListePointDeParcours

\* build has ended, by a return or by an exception
Ended == pc \in {"done", "failed"}

\* a trip update that removes the trip and carries no stop
IsRemoval(tu) == tu.status = "delete" /\ tu.stop_time_updates = <<>>

\* C1 as stated: for a message whose statutOperationnel is SUPPRIMEE, whatever
\* the points listePointDeParcours holds, build is not rejected and returns one TripUpdate
\* 'delete' with no stop_time_update for each trip instance the matcher has.
TripRemovalWhateverStops ==
    (/\ Ended /\ HasTripKeys /\ raw.statutOperationnel = "SUPPRIMEE"
     /\ raw.listePointDeParcours # <<>> /\ navitia # <<>>)
    => /\ pc = "done"
       /\ Len(result) = Len(navitia)
       /\ \A i \in 1..Len(result) : IsRemoval(result[i])

\* C1 amended: for a message whose statutOperationnel is SUPPRIMEE and for
\* which _get_vjs returned trip instances, build is never rejected and returns
\* one TripUpdate 'delete' with no stop_time_update for each of them, whatever
\* the stops hold.
TripRemovalOnceMatched ==
    (raw.statutOperationnel = "SUPPRIMEE" /\ vjs # <<>>)
    => /\ pc # "failed"
       /\ \A i \in 1..Len(trip_updates) :
            IsRemoval(trip_updates[i]) /\ trip_updates[i].vj = vjs[i].id
       /\ pc = "done" => result = trip_updates /\ Len(result) = Len(vjs)

\* a removal returned for two trip instances although a relevant stop, known
\* to both, carries a circulation-status code the code rejects in an update
TripRemovalWitness ==
    /\ pc = "done"
    /\ raw.statutOperationnel = "SUPPRIMEE"
    /\ Len(result) = 2
    /\ \E i \in 1..Len(raw.listePointDeParcours) :
         LET pdp == raw.listePointDeParcours[i] IN
         /\ pdp.horaireVoyageurDepart.statutCirculationOPE = UnknownCode
         /\ \E j \in 1..Len(_retrieve_interesting_pdp(raw.listePointDeParcours)) :
              _retrieve_interesting_pdp(raw.listePointDeParcours)[j] = pdp
         /\ \A k \in 1..Len(vjs) : pdp.cr \in vjs[k].stops

\* status and delay of one direction agree: 'update' has a delay (zero and
\* negative included), 'delete' and unset have none
Paired(status, delay) ==
    /\ status \in {"none", "update", "delete"}
    /\ status = "update" => Len(delay) = 1
    /\ status \in {"delete", "none"} => delay = <<>>

PairedStop(stu) ==
    /\ Paired(stu.arrival_status, stu.arrival_delay)
    /\ Paired(stu.departure_status, stu.departure_delay)

\* C4: in every StopTimeUpdate of every TripUpdate assembled or returned, for
\* arrival and for departure, status 'update' comes with a delay, status
\* 'delete' and an unset status come without.
StatusDelayPairing ==
    \A tus \in {trip_updates, result} :
        \A i \in 1..Len(tus) :
            \A k \in 1..Len(tus[i].stop_time_updates) :
                PairedStop(tus[i].stop_time_updates[k])

\* a returned TripUpdate with a departure updated by a delay, an arrival
\* deleted, and a direction left unset
StatusDelayPairingWitness ==
    /\ pc = "done"
    /\ \E i \in 1..Len(result) :
         LET stus == result[i].stop_time_updates IN
         /\ \E k \in 1..Len(stus) :
              stus[k].departure_status = "update" /\ stus[k].departure_delay # <<>>
         /\ \E k \in 1..Len(stus) : stus[k].arrival_status = "delete"
         /\ \E k \in 1..Len(stus) : stus[k].arrival_status = "none"

\* C5: when build raises (InvalidArguments or ObjectNotFound), at whatever
\* point, it returns no TripUpdate at all, even when trip updates of earlier
\* trip instances were already assembled.
NoPartialResult ==
    /\ pc = "failed" =>
         /\ error.kind \in {"InvalidArguments", "ObjectNotFound"}
         /\ result = <<>>
    /\ pc # "done" => result = <<>>
    /\ pc = "done" => error = NoError

\* build raised on the second trip instance after the trip update of the first
\* one was assembled
NoPartialResultWitness ==
    /\ pc = "failed"
    /\ Len(trip_updates) >= 1
    /\ trip_updates[1].stop_time_updates # <<>>
    /\ error.kind = "InvalidArguments"

\* the relevant stops of the message
RelevantStops == _retrieve_interesting_pdp(raw.listePointDeParcours)

\* _get_vjs gets as far as asking the trip matcher: the trip-level keys are
\* there, and so are a first relevant stop with a departure dateHeure and a
\* last one with an arrival dateHeure
MatcherAsked ==
    /\ HasTripKeys
    /\ LET stops == RelevantStops IN
       /\ stops # <<>>
       /\ stops[1].horaireVoyageurDepart.dateHeure
       /\ stops[Len(stops)].horaireVoyageurArrivee.dateHeure

\* C6: when the trip matcher, once asked, finds no trip instance, build fails
\* with ObjectNotFound naming the train number(s) and produces no TripUpdate.
NoTripFound ==
    (navitia = <<>> /\ pc \notin {"build", "get_vjs"} /\ MatcherAsked)
    => /\ pc = "failed"
       /\ error = ObjectNotFound(raw.numeroCourse)
       /\ trip_updates = <<>>
       /\ result = <<>>

\* the matcher was asked about a train it does not know
NoTripFoundWitness ==
    /\ MatcherAsked
    /\ navitia = <<>>
    /\ pc = "failed"
    /\ error.kind = "ObjectNotFound"
    /\ error.a = "006113/4"

\* C7: when build returns, it returns exactly one TripUpdate per trip instance
\* the matcher answered, each referencing its own instance, in the matcher's
\* order.
OneTripUpdatePerInstance ==
    pc = "done" =>
        /\ Len(result) = Len(navitia)
        /\ \A i \in 1..Len(result) : result[i].vj = navitia[i].id

\* two trip updates returned for a train number matched to two instances
OneTripUpdatePerInstanceWitness ==
    /\ pc = "done"
    /\ Len(navitia) = 2
    /\ Len(result) = 2
    /\ result[1].vj # result[2].vj
    /\ result[2].status = "update"

Toggles == {"Arrivee", "Depart"}

\* the message is neither a removal nor an addition
IsUpdateTrip == raw.statutOperationnel \notin {"None", "SUPPRIMEE", "AJOUTEE"}

\* the relevant stops that the stop matcher resolves for trip instance vj
ResolvedStops(vj) == SelectSeq(RelevantStops, LAMBDA p : p.cr \in vj.stops)

\* what a point de parcours holds for one direction
Block(p, t) == IF t = "Arrivee" THEN p.horaireVoyageurArrivee ELSE p.horaireVoyageurDepart

PointRef(p, t) ==
    IF t = "Arrivee"
    THEN p.sourceHoraireProjeteArriveeReference
    ELSE p.sourceHoraireProjeteDepartReference

PointList(p, t) ==
    IF t = "Arrivee" THEN p.listeHoraireProjeteArrivee ELSE p.listeHoraireProjeteDepart

\* what a StopTimeUpdate holds for one direction
DirStatus(stu, t) == IF t = "Arrivee" THEN stu.arrival_status ELSE stu.departure_status

DirDelay(stu, t) == IF t = "Arrivee" THEN stu.arrival_delay ELSE stu.departure_delay

\* the direction carries a circulation-status code that is none of the four
Offending(p, t) ==
    /\ Block(p, t).json # "null"
    /\ Block(p, t).statutCirculationOPE \notin KnownCodes \cup {"None"}

\* C8 as stated: whenever a relevant stop of the message carries, for one
\* direction, a statutCirculationOPE that is none of the four, the message
\* fails with InvalidArguments (here for a train the matcher knows and a
\* statutOperationnel that makes the trip an update).
UnknownCodeAlwaysRejected ==
    (/\ Ended /\ HasTripKeys /\ navitia # <<>> /\ IsUpdateTrip
     /\ \E k \in 1..Len(RelevantStops) : \E t \in Toggles : Offending(RelevantStops[k], t))
    => pc = "failed" /\ error.kind = "InvalidArguments"

\* the message holds no fatal condition other than circulation-status codes
NoOtherFatal ==
    /\ raw.statutOperationnel # "None"
    /\ \A k \in 1..Len(RelevantStops) :
         /\ RelevantStops[k].cr # "None"
         /\ \A t \in Toggles :
              LET p == RelevantStops[k] IN
              (Block(p, t).json # "null" /\ Block(p, t).statutCirculationOPE = "None")
              => _retrieve_projected_time(PointRef(p, t), PointList(p, t)).error = NoError

\* C8 amended: when trip instances were matched, statutOperationnel is neither
\* SUPPRIMEE nor AJOUTEE, and a relevant stop that the stop matcher resolves for
\* one of the matched instances carries, for one direction, a
\* statutCirculationOPE that is none of the four, the whole message fails with
\* InvalidArguments and nothing is returned; an error about a circulation
\* status names the code and direction of such a stop, and the error is of
\* that kind whenever the message holds no other fatal condition.
UnknownCodeRejected ==
    (/\ Ended /\ vjs # <<>>
     /\ raw.statutOperationnel \notin {"SUPPRIMEE", "AJOUTEE"}
     /\ \E i \in 1..Len(vjs) : \E k \in 1..Len(ResolvedStops(vjs[i])) : \E t \in Toggles :
          Offending(ResolvedStops(vjs[i])[k], t))
    => /\ pc = "failed"
       /\ error.kind = "InvalidArguments"
       /\ result = <<>>
       /\ error.what = "statutCirculationOPE" =>
            \E k \in 1..Len(RelevantStops) :
                /\ Offending(RelevantStops[k], error.b)
                /\ Block(RelevantStops[k], error.b).statutCirculationOPE = error.a
       /\ NoOtherFatal => error.what = "statutCirculationOPE"

\* a message rejected for the unknown code of the arrival of its second
\* relevant stop
UnknownCodeRejectedWitness ==
    /\ pc = "failed"
    /\ error = InvalidArguments("statutCirculationOPE", UnknownCode, "Arrivee")
    /\ Len(RelevantStops) = 2
    /\ Offending(RelevantStops[2], "Arrivee")
    /\ ~Offending(RelevantStops[1], "Arrivee")

Occurrences(d) == Cardinality({j \in 1..Len(log) : log[j] = d})

\* the resolved stops of each trip instance matched
ResolvedByInstance ==
    LET stops == RelevantStops IN
    [i \in 1..Len(vjs) |-> SelectSeq(stops, LAMBDA p : p.cr \in vjs[i].stops)]

\* the (trip instance, resolved stop, direction) triples of the message whose
\* time-block carries code c, resolved being ResolvedByInstance
WithCodeAt(resolved, c) ==
    {x \in (1..Len(vjs)) \X (1..Len(raw.listePointDeParcours)) \X Toggles :
        /\ x[2] <= Len(resolved[x[1]])
        /\ Block(resolved[x[1]][x[2]], x[3]).json # "null"
        /\ Block(resolved[x[1]][x[2]], x[3]).statutCirculationOPE = c}

\* the (trip instance, relevant stop) pairs the stop matcher does not resolve
Unresolved ==
    LET stops == RelevantStops IN
    {x \in (1..Len(vjs)) \X (1..Len(stops)) : stops[x[2]].cr \notin vjs[x[1]].stops}

\* C10: on a resolved stop of an 'update' trip, SUPPRESSION sets the direction
\* to 'delete' without diagnostic, SUPPRESSION_DETOURNEMENT sets it to 'delete'
\* with one diagnostic, CREATION and DETOURNEMENT leave it unset with one
\* diagnostic; no delay is set, no such code makes build raise, and the rest of
\* what is returned is as without them: one 'update' TripUpdate per trip
\* instance, one StopTimeUpdate per resolved stop, and no diagnostic more than
\* these and those of the unresolved stops.
CodeRuleTable ==
    /\ (pc = "failed" /\ error.what = "statutCirculationOPE") => error.a \notin KnownCodes
    /\ (pc = "done" /\ IsUpdateTrip) =>
         LET resolved == ResolvedByInstance
             detours == Cardinality(WithCodeAt(resolved, "SUPPRESSION_DETOURNEMENT"))
             creations == Cardinality(WithCodeAt(resolved, "CREATION"))
             reroutes == Cardinality(WithCodeAt(resolved, "DETOURNEMENT"))
         IN
         /\ \A i \in 1..Len(result) :
              /\ result[i].status = "update"
              /\ Len(result[i].stop_time_updates) = Len(resolved[i])
              /\ \A k \in 1..Len(resolved[i]) : \A t \in Toggles :
                   LET blk == Block(resolved[i][k], t)
                       stu == result[i].stop_time_updates[k]
                   IN (blk.json # "null" /\ blk.statutCirculationOPE \in KnownCodes)
                      => /\ DirDelay(stu, t) = <<>>
                         /\ DirStatus(stu, t) =
                              IF blk.statutCirculationOPE
                                    \in {"SUPPRESSION", "SUPPRESSION_DETOURNEMENT"}
                              THEN "delete" ELSE "none"
         /\ Occurrences("SUPPRESSION_DETOURNEMENT is not handled completely") = detours
         /\ Occurrences("CREATION is not handled") = creations
         /\ Occurrences("DETOURNEMENT is not handled") = reroutes
         /\ Len(log) = Cardinality(Unresolved) + detours + creations + reroutes

\* an update returned with a departure left unset under CREATION, a departure
\* deleted under SUPPRESSION_DETOURNEMENT, and the two diagnostics
CodeRuleTableWitness ==
    /\ pc = "done"
    /\ IsUpdateTrip
    /\ Len(result) = 1
    /\ Len(result[1].stop_time_updates) = 2
    /\ RelevantStops[1].horaireVoyageurDepart.statutCirculationOPE = "CREATION"
    /\ result[1].stop_time_updates[1].departure_status = "none"
    /\ RelevantStops[2].horaireVoyageurDepart.statutCirculationOPE = "SUPPRESSION_DETOURNEMENT"
    /\ result[1].stop_time_updates[2].departure_status = "delete"
    /\ log = <<"CREATION is not handled", "SUPPRESSION_DETOURNEMENT is not handled completely">>

\* no point of the message's list has a departure time-block (for the filter's
\* test, which takes {} for an absent block)
NoDepartureAtAll ==
    /\ raw.hasListePointDeParcours
    /\ \A i \in 1..Len(raw.listePointDeParcours) :
         ~Truthy(raw.listePointDeParcours[i].horaireVoyageurDepart)

\* C11: when no point of listePointDeParcours has a departure time-block, the
\* Stop Relevance Filter returns the empty list and build raises
\* InvalidArguments, whatever statutOperationnel is and whatever the trip
\* matcher would answer: no trip instance is fetched, nothing is assembled or
\* returned, and for a message that has its trip-level keys the error is the
\* one about listePointDeParcours having no valid stop_time.
NoDepartureRejected ==
    NoDepartureAtAll =>
        /\ pc \notin {"make", "done"}
        /\ vjs = <<>> /\ trip_updates = <<>> /\ result = <<>>
        /\ pc = "failed" =>
             /\ error.kind = "InvalidArguments"
             /\ HasTripKeys =>
                  /\ RelevantStops = <<>>
                  /\ error = InvalidArguments("no valid stop_time",
                                              "listePointDeParcours", "")

\* a removal, for a train the matcher knows, rejected because its two points,
\* stations with an arrival time-block, have no departure time-block
NoDepartureRejectedWitness ==
    /\ NoDepartureAtAll
    /\ pc = "failed"
    /\ raw.statutOperationnel = "SUPPRIMEE"
    /\ Len(navitia) = 2
    /\ Len(raw.listePointDeParcours) = 2
    /\ \A i \in 1..2 :
         /\ is_station(raw.listePointDeParcours[i])
         /\ Truthy(raw.listePointDeParcours[i].horaireVoyageurArrivee)
    /\ error.what = "no valid stop_time"

\* a trip update left as the constructor made it: no status, no stop
IsUntouched(tu) == tu.status = "none" /\ tu.stop_time_updates = <<>>

\* C12 as stated: for every message whose statutOperationnel is AJOUTEE, build
\* is not rejected, records a diagnostic and returns TripUpdates without status
\* and without stop_time_update (here for a message that has its trip-level
\* keys and some point, and a train the matcher knows).
AdditionNeverRejected ==
    (/\ Ended /\ HasTripKeys /\ raw.statutOperationnel = "AJOUTEE"
     /\ raw.listePointDeParcours # <<>> /\ navitia # <<>>)
    => /\ pc = "done"
       /\ log # <<>>
       /\ \A i \in 1..Len(result) : IsUntouched(result[i])

\* C12 amended: the AJOUTEE status itself is never fatal.  For a message whose
\* statutOperationnel is AJOUTEE and for which _get_vjs returned trip
\* instances, build is never rejected, whatever the stops hold; it records one
\* "not handled" diagnostic per trip instance and nothing else, and each
\* TripUpdate it assembles and returns has no status assigned and no
\* stop_time_update.
AdditionOnceMatched ==
    (raw.statutOperationnel = "AJOUTEE" /\ vjs # <<>>)
    => /\ pc # "failed"
       /\ \A i \in 1..Len(trip_updates) :
            IsUntouched(trip_updates[i]) /\ trip_updates[i].vj = vjs[i].id
       /\ log = [i \in 1..Len(trip_updates) |-> "AJOUTEE is not handled"]
       /\ pc = "done" => result = trip_updates /\ Len(result) = Len(vjs)

\* an addition returned for two trip instances, with its two diagnostics,
\* although a relevant stop known to both carries an unknown code
AdditionOnceMatchedWitness ==
    /\ pc = "done"
    /\ raw.statutOperationnel = "AJOUTEE"
    /\ Len(result) = 2
    /\ Len(log) = 2
    /\ \E k \in 1..Len(RelevantStops) :
         /\ Offending(RelevantStops[k], "Depart")
         /\ \A i \in 1..Len(vjs) : RelevantStops[k].cr \in vjs[i].stops

\* the points of l at the positions of the set idxs, in the order of l
PointsAt(l, idxs) ==
    [k \in 1..Cardinality(idxs) |->
        l[CHOOSE i \in idxs : Cardinality({j \in idxs : j <= i}) = k]]

HasDeparture(p) == Truthy(p.horaireVoyageurDepart)

HasArrival(p) == Truthy(p.horaireVoyageurArrivee)

\* the positions after which nothing is kept: those of the trailing tail in
\* which no station has an arrival time-block any more
InTail(l, i) == \A j \in i..Len(l) : ~(is_station(l[j]) /\ HasArrival(l[j]))

\* a station with at least one time-block, outside the trailing tail
KeptOnItsOwn(l, i) ==
    /\ is_station(l[i])
    /\ HasDeparture(l[i]) \/ HasArrival(l[i])
    /\ ~InTail(l, i)

\* C13 as stated: the points dropped for their position are those before the
\* first point that has a departure time-block; every point at or after it is
\* kept iff it is a station, has a time-block and is not in the trailing tail,
\* also when that first departure-bearing point is a non-station.
PositionFromAnyDeparture ==
    fn_pc >= 1 =>
        fn_out = PointsAt(fn_prev,
                    {i \in 1..Len(fn_prev) :
                        /\ \E j \in 1..i : HasDeparture(fn_prev[j])
                        /\ KeptOnItsOwn(fn_prev, i)})

\* C13 amended: the points dropped for their position are those before the
\* first point that is a station and has a departure time-block (the first
\* point the filter can keep, so that a departure-bearing non-station opens
\* nothing); every point at or after that one is kept iff it is a station, has
\* at least one time-block and is not in the trailing tail without arrival.
PositionFromStationDeparture ==
    fn_pc >= 1 =>
        fn_out = PointsAt(fn_prev,
                    {i \in 1..Len(fn_prev) :
                        /\ \E j \in 1..i : is_station(fn_prev[j]) /\ HasDeparture(fn_prev[j])
                        /\ KeptOnItsOwn(fn_prev, i)})

\* a non-station with a departure, then a station with an arrival only, both
\* dropped, then a station with a departure and a station with an arrival, kept
PositionFromStationDepartureWitness ==
    /\ fn_pc = 1
    /\ Len(fn_in) = 4
    /\ ~is_station(fn_in[1]) /\ HasDeparture(fn_in[1])
    /\ is_station(fn_in[2]) /\ HasArrival(fn_in[2]) /\ ~HasDeparture(fn_in[2])
    /\ is_station(fn_in[3]) /\ HasDeparture(fn_in[3])
    /\ fn_out = <<fn_in[3], fn_in[4]>>

\* a station with a departure time-block and no arrival time-block
DepartureOnly(p) == is_station(p) /\ HasDeparture(p) /\ ~HasArrival(p)

\* some station after position i has an arrival time-block
LaterArrival(l, i) == \E j \in (i + 1)..Len(l) : is_station(l[j]) /\ HasArrival(l[j])

\* C14: the output of the Stop Relevance Filter is made of the points of some
\* positions of the input, in order, such that a station with a departure
\* time-block and no arrival time-block is among them iff some later station
\* of the input has an arrival time-block, and otherwise neither that point nor
\* any later one is; and the last point of a non-empty output has an arrival
\* time-block.
TrailingTrim ==
    fn_pc >= 1 =>
        /\ \E kept \in SUBSET (1..Len(fn_prev)) :
             /\ fn_out = PointsAt(fn_prev, kept)
             /\ \A i \in 1..Len(fn_prev) :
                  DepartureOnly(fn_prev[i]) =>
                      IF LaterArrival(fn_prev, i)
                      THEN i \in kept
                      ELSE \A j \in i..Len(fn_prev) : j \notin kept
        /\ fn_out # <<>> => HasArrival(fn_out[Len(fn_out)])

\* a station with a departure only kept because the next station has an
\* arrival, and a later one dropped, with the point after it, because nothing
\* downstream has
TrailingTrimWitness ==
    /\ fn_pc = 1
    /\ Len(fn_in) = 4
    /\ DepartureOnly(fn_in[1]) /\ LaterArrival(fn_in, 1)
    /\ DepartureOnly(fn_in[3]) /\ ~LaterArrival(fn_in, 3)
    /\ HasArrival(fn_in[4])
    /\ fn_out = <<fn_in[1], fn_in[2]>>

\* the stops that a sequence of StopTimeUpdates is about
StopsOf(stus) == [k \in 1..Len(stus) |-> stus[k].stop]

\* the relevant stops, in feed order, whose code trip instance vj knows
ResolvedInOrder(vj) ==
    LET stops == RelevantStops
    IN PointsAt(stops, {k \in 1..Len(stops) : stops[k].cr \in vj.stops})

\* C15: the stop_time_updates of every TripUpdate with status 'update' are
\* about the relevant stops that the stop matcher resolved for its trip
\* instance, one each and in feed order: a resolved stop has its entry also when
\* no direction gets a status, an unresolved stop has none, and the stops after
\* an unresolved one are processed (a SUPPRESSION on their arrival is there).
OneEntryPerResolvedStop ==
    \A i \in 1..Len(trip_updates) :
        trip_updates[i].status = "update" =>
            LET stus == trip_updates[i].stop_time_updates
                resolved == ResolvedInOrder(vjs[i])
            IN /\ StopsOf(stus) = [k \in 1..Len(resolved) |-> resolved[k].cr]
               /\ \A k \in 1..Len(resolved) :
                    (/\ resolved[k].horaireVoyageurArrivee.json # "null"
                     /\ resolved[k].horaireVoyageurArrivee.statutCirculationOPE = "SUPPRESSION")
                    => stus[k].arrival_status = "delete"

\* a message of two relevant stops returned for two trip instances: the first
\* does not know the first stop and has one entry, for the second stop, whose
\* arrival is deleted; the second knows both and has two entries, the first
\* without any status
OneEntryPerResolvedStopWitness ==
    /\ pc = "done"
    /\ Len(result) = 2
    /\ Len(RelevantStops) = 2
    /\ result[1].status = "update"
    /\ RelevantStops[1].cr \notin vjs[1].stops
    /\ Len(result[1].stop_time_updates) = 1
    /\ result[1].stop_time_updates[1].stop = RelevantStops[2].cr
    /\ result[1].stop_time_updates[1].arrival_status = "delete"
    /\ Len(result[2].stop_time_updates) = 2
    /\ result[2].stop_time_updates[1].arrival_status = "none"
    /\ result[2].stop_time_updates[1].departure_status = "none"

\* C16: whatever the list, the relevant stops that _get_vjs gets from the Stop
\* Relevance Filter are, when there are any, stations with at least one
\* time-block, the first with a departure time-block and the last with an
\* arrival time-block; so _get_vjs never raises for a missing
\* horaireVoyageurDepart on the first or a missing horaireVoyageurArrivee on
\* the last, and a message with relevant stops is only rejected for a missing
\* dateHeure or an unknown train.
RelevantEndsHaveBlocks ==
    pc \in {"make", "failed"} =>
        LET stops == RelevantStops IN
        /\ stops # <<>> =>
             /\ HasDeparture(stops[1])
             /\ HasArrival(stops[Len(stops)])
             /\ \A k \in 1..Len(stops) :
                  is_station(stops[k]) /\ (HasDeparture(stops[k]) \/ HasArrival(stops[k]))
        /\ error \notin {InvalidArguments("key", "horaireVoyageurDepart", ""),
                         InvalidArguments("key", "horaireVoyageurArrivee", "")}
        /\ (pc = "failed" /\ stops # <<>>) =>
             \/ error.kind = "ObjectNotFound"
             \/ error.what = "key" /\ error.a = "dateHeure"

\* trip instances fetched for a list of three stations, an arrival only, a
\* departure only, an arrival only, of which the last two are relevant
RelevantEndsHaveBlocksWitness ==
    /\ pc = "make"
    /\ Len(raw.listePointDeParcours) = 3
    /\ \A i \in 1..3 : is_station(raw.listePointDeParcours[i])
    /\ ~HasDeparture(raw.listePointDeParcours[1]) /\ HasArrival(raw.listePointDeParcours[1])
    /\ ~HasArrival(raw.listePointDeParcours[2])
    /\ ~HasDeparture(raw.listePointDeParcours[3])
    /\ RelevantStops = <<raw.listePointDeParcours[2], raw.listePointDeParcours[3]>>

\* the validation steps in the order claimed, each with the condition under
\* which it fails and the error it reports
ValidationSteps ==
    <<[fails |-> ~raw.parses,
       error |-> InvalidArguments("invalid json", "", "")],
      [fails |-> raw.nouvelleVersion = "absent",
       error |-> InvalidArguments("No object", "nouvelleVersion", "")],
      [fails |-> raw.nouvelleVersion = "null",
       error |-> InvalidArguments("key", "nouvelleVersion", "")],
      [fails |-> raw.numeroCourse = "None",
       error |-> InvalidArguments("key", "numeroCourse", "")],
      [fails |-> ~raw.hasListePointDeParcours,
       error |-> InvalidArguments("key", "listePointDeParcours", "")],
      [fails |-> RelevantStops = <<>>,
       error |-> InvalidArguments("no valid stop_time", "listePointDeParcours", "")],
      [fails |-> RelevantStops # <<>> /\ ~RelevantStops[1].horaireVoyageurDepart.dateHeure,
       error |-> InvalidArguments("key", "dateHeure", "Depart")],
      [fails |-> RelevantStops # <<>>
                   /\ ~RelevantStops[Len(RelevantStops)].horaireVoyageurArrivee.dateHeure,
       error |-> InvalidArguments("key", "dateHeure", "Arrivee")],
      [fails |-> navitia = <<>>,
       error |-> ObjectNotFound(raw.numeroCourse)],
      [fails |-> raw.statutOperationnel = "None",
       error |-> InvalidArguments("key", "statutOperationnel", "")]>>

\* the steps that fail on this message
FailingSteps == {k \in 1..Len(ValidationSteps) : ValidationSteps[k].fails}

\* the errors of the per-stop checks
IsPerStopError(e) ==
    /\ e.kind = "InvalidArguments"
    /\ \/ e.what \in {"statutCirculationOPE", "source", "no source"}
       \/ e.what = "key" /\ e.a = "cr"

\* C17: build validates in the order nouvelleVersion, numeroCourse,
\* listePointDeParcours, relevant stops not empty, departure dateHeure of the
\* first relevant stop, arrival dateHeure of the last, trip lookup, and only
\* then statutOperationnel and the per-stop checks: when one of these steps
\* fails on the message, build raises the error of the first that does (a
\* message without numeroCourse and without listePointDeParcours is rejected
\* naming numeroCourse, one without statutOperationnel whose train matches no
\* trip is rejected with ObjectNotFound); when none does, it returns or raises
\* the error of a per-stop check.
ValidationOrder ==
    Ended =>
        IF FailingSteps # {}
        THEN /\ pc = "failed"
             /\ error = ValidationSteps[CHOOSE k \in FailingSteps :
                                           \A j \in FailingSteps : k <= j].error
        ELSE pc = "done" \/ IsPerStopError(error)

\* a message without statutOperationnel, for a train that matches no trip,
\* rejected with ObjectNotFound
ValidationOrderWitness ==
    /\ pc = "failed"
    /\ raw.statutOperationnel = "None"
    /\ navitia = <<>>
    /\ error = ObjectNotFound("006113/4")

=============================================================================
